---------------------------- MODULE Spec2Model ----------------------------
(***************************************************************************)
(* World.Search of slime.go: one producer goroutine (sendSections) tiles   *)
(* the rectangle into Sections, workerCount worker goroutines (search)     *)
(* compute and search them, and the calling goroutine merges the result    *)
(* batches into one ranked list.                                           *)
(*                                                                         *)
(* The model is scaled: SectionSize is 128 in the source and the queues    *)
(* hold 8 entries; int32 is IntBits = 32 bits wide.  All three are kept    *)
(* as named definitions and every formula below is written in terms of     *)
(* them.  Machine integers wrap (Go defines signed overflow as wrapping).  *)
(***************************************************************************)
EXTENDS Integers, Sequences, FiniteSets, Bags, TLC

\* ------------------------------------------------------------------ bounds
SectionSize == 4
IntBits == 6
SectionChCap == 2
ResultChCap == 2
MaxWorkers == 2

\* ------------------------------------------------- machine integers (int32)
RECURSIVE Pow2(_)
Pow2(n) == IF n = 0 THEN 1 ELSE 2 * Pow2(n - 1)

IntMod == Pow2(IntBits)
MaxInt == Pow2(IntBits - 1) - 1
MinInt == 0 - Pow2(IntBits - 1)

\* the value a signed IntBits-wide register holds after computing n
Wrap(n) == ((n - MinInt) % IntMod) + MinInt

\* ------------------------------------------------------------ Mask (external)
\* A mask is [w, h, cells]: Bounds() is (w, h), Query(x, z) is <<x, z>> \in cells.
Bounds(mask) == <<mask.w, mask.h>>
Query(mask, x, z) == <<x, z>> \in mask.cells

FullMask(w, h) == [w |-> w, h |-> h, cells |-> (0 .. w - 1) \X (0 .. h - 1)]

\* ------------------------------------------------------------- the classifier
\* CalcChunk is a pure function of (world, x, z).  The generator it draws from
\* is not part of slime.go; a world of the model is one of a few fixed grids.
\* World 3 has slime chunks only in one run of SectionSize - 2 cells of row 0,
\* at the bottom of the integer range.
Worlds == 0 .. 2

CalcChunk(world, x, z) ==
    CASE world = 0 -> TRUE
      [] world = 1 -> (x + 2 * z) % 3 = 0
      [] world = 3 -> z = 0 /\ MinInt < x /\ x < MinInt + SectionSize - 1
      [] OTHER     -> (x * x + z * z + x) % 4 # 1

\* ------------------------------------------------------------------- Section
secIdx(x, z) == SectionSize * z + x

EmptySlime == [i \in 0 .. SectionSize * SectionSize - 1 |-> FALSE]

NewSection(X, Z) == [X |-> X, Z |-> Z, Slime |-> EmptySlime, state |-> "Empty"]

Get(sec, x, z) == sec.Slime[secIdx(x, z)]

\* Section.Compute: Set(x, z, CalcChunk(sec.X+x, sec.Z+z)) for every z, x < SectionSize.
\* Each index is written once, so the buffer after the two loops holds, at the
\* index of <<x, z>>, the classification of that cell.
Compute(sec, world) ==
    [sec EXCEPT
       !.Slime = [i \in DOMAIN sec.Slime |->
                    LET written == { c \in (0 .. SectionSize - 1) \X (0 .. SectionSize - 1) :
                                       secIdx(c[1], c[2]) = i }
                    IN  IF written = {} THEN sec.Slime[i]
                        ELSE LET c == CHOOSE c \in written : TRUE
                             IN  CalcChunk(world, Wrap(sec.X + c[1]), Wrap(sec.Z + c[2]))],
       !.state = "Computed"]

RECURSIVE CheckMaskFrom(_, _, _, _, _, _)
CheckMaskFrom(sec, x0, z0, mask, x, z) ==
    LET w == Bounds(mask)[1]
        h == Bounds(mask)[2]
    IN  IF z >= h THEN 0
        ELSE IF x >= w THEN CheckMaskFrom(sec, x0, z0, mask, 0, z + 1)
        ELSE (IF Get(sec, x + x0, z + z0) /\ Query(mask, x, z) THEN 1 ELSE 0)
             + CheckMaskFrom(sec, x0, z0, mask, x + 1, z)

CheckMask_Corner(sec, x0, z0, mask) == CheckMaskFrom(sec, 0, 0, mask, 0, 0)

CheckMask(sec, x0, z0, mask) == CheckMaskFrom(sec, x0, z0, mask, 0, 0)

Reported_Strict(count, threshold) == count > threshold

Reported(count, threshold) == count >= threshold

SearchX1_NoMask(mask) == SectionSize

\* the loop bounds of Section.Search: placements x < x1, z < z1
SearchX1(mask) == SectionSize - Bounds(mask)[1]
SearchZ1(mask) == SectionSize - Bounds(mask)[2]

RECURSIVE SearchFrom(_, _, _, _, _)
SearchFrom(sec, mask, threshold, x, z) ==
    LET w == Bounds(mask)[1]
        h == Bounds(mask)[2]
        offX == Wrap(sec.X + (w \div 2))
        offZ == Wrap(sec.Z + (h \div 2))
    IN  IF z >= SearchZ1(mask) THEN << >>
        ELSE IF x >= SearchX1(mask) THEN SearchFrom(sec, mask, threshold, 0, z + 1)
        ELSE LET count == CheckMask(sec, x, z, mask)
             IN  (IF Reported(count, threshold)
                    THEN << [Count |-> count, X |-> Wrap(x + offX), Z |-> Wrap(z + offZ)] >>
                    ELSE << >>)
                 \o SearchFrom(sec, mask, threshold, x + 1, z)

SectionSearch(sec, mask, threshold) == SearchFrom(sec, mask, threshold, 0, 0)

\* the placements (grid coordinates of the mask's top-left cell) Section.Search
\* calls CheckMask for
Placements(sec, mask) ==
    { <<Wrap(sec.X + x), Wrap(sec.Z + z)>> :
        x \in 0 .. SearchX1(mask) - 1, z \in 0 .. SearchZ1(mask) - 1 }

\* ------------------------------------------------------------ buffer accesses
\* the arguments secIdx is called with: by Compute (Set, lines 134-136), by one
\* CheckMask (Get, lines 161-163) and by Search (lines 146-149)
ComputeAccesses == (0 .. SectionSize - 1) \X (0 .. SectionSize - 1)

CheckMaskAccesses(x0, z0, mask) ==
    { <<x + x0, z + z0>> : x \in 0 .. Bounds(mask)[1] - 1, z \in 0 .. Bounds(mask)[2] - 1 }

SearchAccesses(mask) ==
    UNION { CheckMaskAccesses(x, z, mask) :
              x \in 0 .. SearchX1(mask) - 1, z \in 0 .. SearchZ1(mask) - 1 }

\* lines 172-173: the two assertions of secIdx hold for every access of the set
Asserted(accesses) == \A p \in accesses : p[1] < SectionSize /\ p[2] < SectionSize

\* ------------------------------------------------------------- ranking merge
needSwap_CountAscending(a, b) ==
    LET ad2 == Wrap(Wrap(a.X * a.X) + Wrap(a.Z * a.Z))
        bd2 == Wrap(Wrap(b.X * b.X) + Wrap(b.Z * b.Z))
    IN  IF a.Count # b.Count THEN a.Count > b.Count
        ELSE IF ad2 # bd2 THEN ad2 > bd2
        ELSE IF a.X # b.X THEN a.X > b.X
        ELSE a.Z > b.Z

needSwap_TieDescending(a, b) ==
    LET ad2 == Wrap(Wrap(a.X * a.X) + Wrap(a.Z * a.Z))
        bd2 == Wrap(Wrap(b.X * b.X) + Wrap(b.Z * b.Z))
    IN  IF a.Count # b.Count THEN a.Count < b.Count
        ELSE IF ad2 # bd2 THEN ad2 > bd2
        ELSE IF a.X # b.X THEN a.X < b.X
        ELSE a.Z < b.Z

needSwap_NoTieBreak(a, b) ==
    LET ad2 == Wrap(Wrap(a.X * a.X) + Wrap(a.Z * a.Z))
        bd2 == Wrap(Wrap(b.X * b.X) + Wrap(b.Z * b.Z))
    IN  IF a.Count # b.Count THEN a.Count < b.Count
        ELSE ad2 > bd2

needSwap(a, b) ==
    LET ad2 == Wrap(Wrap(a.X * a.X) + Wrap(a.Z * a.Z))
        bd2 == Wrap(Wrap(b.X * b.X) + Wrap(b.Z * b.Z))
    IN  IF a.Count # b.Count THEN a.Count < b.Count
        ELSE IF ad2 # bd2 THEN ad2 > bd2
        ELSE IF a.X # b.X THEN a.X > b.X
        ELSE a.Z > b.Z

SearchResult == [Count : Int, X : Int, Z : Int]

SwapAt(rs, j) == [rs EXCEPT ![j - 1] = rs[j], ![j] = rs[j - 1]]

\* the inner loop of the merge, 1-based: for j := i; j > 0; j--
Bubble[rs \in Seq(SearchResult), j \in Nat] ==
    IF j > 1 /\ needSwap(rs[j - 1], rs[j]) THEN Bubble[SwapAt(rs, j), j - 1] ELSE rs

\* the outer loop: for i := start; i < len(results); i++
InsertFrom[rs \in Seq(SearchResult), i \in Nat] ==
    IF i > Len(rs) THEN rs ELSE InsertFrom[Bubble[rs, i], i + 1]

Merge_Append(results, sectionResults) == results \o sectionResults

\* lines 45-55: the batch is appended and each new entry is moved to its place
Merge(results, sectionResults) ==
    InsertFrom[results \o sectionResults, Len(results) + 1]

\* the entries of a list, with how often each occurs
BagOf(rs) ==
    [r \in { rs[i] : i \in DOMAIN rs } |-> Cardinality({ i \in DOMAIN rs : rs[i] = r })]

\* --------------------------------------------------------------------- state
VARIABLES
    world, x0, z0, x1, z1, threshold, mask, workerCount,   \* arguments of Search
    mainPc, spawned, results,                              \* World.Search
    sectionCh, sectionClosed, resultCh, resultClosed, wgroup,
    prodPc, px, pz, lo, hi,                                \* sendSections
    wPc, wSec, wBatch,                                     \* search, per worker
    crashed,                                               \* a goroutine panicked
    published, tested, retested,                           \* history
    chAddr, wAddr, lastAddr,                               \* the *Section pointers
    received,                                              \* the entries read from resultCh
    cmp, verdict,                                          \* needSwap on its own
    accessed                                               \* the arguments of secIdx

args == <<world, x0, z0, x1, z1, threshold, mask, workerCount>>
mainVars == <<mainPc, spawned, results>>
chanVars == <<sectionCh, sectionClosed, resultCh, resultClosed, wgroup>>
prodVars == <<prodPc, px, pz, lo, hi>>
workVars == <<wPc, wSec, wBatch>>
traceVars == <<published, tested, retested>>
auxVars == <<received, cmp, verdict>>
accVars == <<accessed>>
histVars == <<published, tested, retested, chAddr, wAddr, lastAddr, auxVars, accVars>>
vars == <<args, mainVars, chanVars, prodVars, workVars, crashed, histVars>>

Workers == 1 .. MaxWorkers

\* The addresses a live Section can have: at most SectionChCap Sections are queued
\* and each worker holds at most one; 0 is the nil pointer.
Addrs == 1 .. SectionChCap + MaxWorkers

\* -------------------------------------------------------------------- inputs
MaskL == [w |-> 2, h |-> 2, cells |-> {<<0, 0>>, <<1, 0>>, <<1, 1>>}]

Call(r, m, t, wd, n) ==
    [x0 |-> r[1], z0 |-> r[2], x1 |-> r[3], z1 |-> r[4],
     mask |-> m, threshold |-> t, world |-> wd, workerCount |-> n]

CallsOf(rects, masks, thresholds, worlds, counts) ==
    { Call(r, m, t, wd, n) :
        r \in rects, m \in masks, t \in thresholds, wd \in worlds, n \in counts }

\* the scenario of the spec: a 1x1 mask over (0,0)-(2S,2S), with one and two workers
SquareCalls ==
    CallsOf({<<0, 0, 2 * SectionSize, 2 * SectionSize>>}, {FullMask(1, 1)}, {1}, {1, 2}, 1 .. 2)

\* one or two Sections, corners in either order, around the origin
SmallCalls ==
    CallsOf({<<1, 1, -1, -1>>, <<0, 0, SectionSize + 1, 1>>, <<0, 0, 0, 0>>},
            {FullMask(1, 1), MaskL}, 1 .. 2, Worlds, 1 .. MaxWorkers)

\* masks the bounds check rejects
RejectedCalls ==
    CallsOf({<<0, 0, 1, 1>>}, {FullMask(SectionSize, 1), FullMask(1, SectionSize)}, {1}, {0},
            1 .. MaxWorkers)

\* a rectangle at the top of the integer range; no placement reaches the threshold
EdgeCalls ==
    CallsOf({<<MaxInt - 1, 0, MaxInt, 1>>}, {FullMask(1, 1)}, {2}, {0}, {1})

\* the same rectangle with a mask of width SectionSize - 2: the stride is 3, the
\* producer's x wraps and comes back to the end of the rectangle
WrapCalls ==
    CallsOf({<<MaxInt - 1, 0, MaxInt, 1>>}, {FullMask(SectionSize - 2, 1)},
            {SectionSize - 2}, {3}, {1})

Calls == SquareCalls \cup SmallCalls \cup RejectedCalls \cup EdgeCalls \cup WrapCalls

Init ==
    /\ \E c \in Calls :
          /\ world = c.world
          /\ x0 = c.x0 /\ z0 = c.z0 /\ x1 = c.x1 /\ z1 = c.z1
          /\ threshold = c.threshold
          /\ mask = c.mask
          /\ workerCount = c.workerCount
    /\ mainPc = "check" /\ spawned = 0 /\ results = << >>
    /\ sectionCh = << >> /\ sectionClosed = FALSE
    /\ resultCh = << >> /\ resultClosed = FALSE
    /\ wgroup = 0
    /\ prodPc = "idle" /\ px = 0 /\ pz = 0 /\ lo = <<0, 0>> /\ hi = <<0, 0>>
    /\ wPc = [w \in Workers |-> "idle"]
    /\ wSec = [w \in Workers |-> NewSection(0, 0)]
    /\ wBatch = [w \in Workers |-> << >>]
    /\ crashed = FALSE
    /\ published = {} /\ tested = {} /\ retested = {}
    /\ chAddr = << >> /\ wAddr = [w \in Workers |-> 0] /\ lastAddr = 0
    /\ received = EmptyBag
    /\ cmp = << >> /\ verdict = << >>
    /\ accessed = {}

\* ---------------------------------------------------------------- World.Search
BoundsExceeded_WidthOnly(m) == Bounds(m)[1] >= SectionSize

BoundsExceeded(m) == Bounds(m)[1] >= SectionSize \/ Bounds(m)[2] >= SectionSize

\* lines 26-29: the bounds check, and the panic
MainPanic ==
    /\ ~crashed /\ mainPc = "check"
    /\ BoundsExceeded(mask)
    /\ mainPc' = "panicked"
    /\ UNCHANGED <<args, spawned, results, chanVars, prodVars, workVars, crashed, histVars>>

\* lines 26-35: the check passes, the channels are made, the producer is started
MainGo ==
    /\ ~crashed /\ mainPc = "check"
    /\ ~BoundsExceeded(mask)
    /\ mainPc' = "add"
    /\ prodPc' = "start"
    /\ UNCHANGED <<args, spawned, results, chanVars, px, pz, lo, hi, workVars, crashed,
                   histVars>>

\* lines 37-38: wgroup.Add(workerCount)
MainAdd ==
    /\ ~crashed /\ mainPc = "add"
    /\ wgroup' = wgroup + workerCount
    /\ mainPc' = "spawn"
    /\ UNCHANGED <<args, spawned, results, sectionCh, sectionClosed, resultCh, resultClosed,
                   prodVars, workVars, crashed, histVars>>

\* lines 39-41: one iteration of the loop that starts the workers
MainSpawn ==
    /\ ~crashed /\ mainPc = "spawn"
    /\ spawned < workerCount
    /\ spawned' = spawned + 1
    /\ wPc' = [wPc EXCEPT ![spawned + 1] = "recv"]
    /\ UNCHANGED <<args, mainPc, results, chanVars, prodVars, wSec, wBatch, crashed, histVars>>

MainSpawned ==
    /\ ~crashed /\ mainPc = "spawn"
    /\ spawned >= workerCount
    /\ mainPc' = "range"
    /\ UNCHANGED <<args, spawned, results, chanVars, prodVars, workVars, crashed, histVars>>

\* lines 44-56: one batch is received and merged
MainMerge ==
    /\ ~crashed /\ mainPc = "range"
    /\ resultCh # << >>
    /\ results' = Merge(results, Head(resultCh))
    /\ received' = received (+) BagOf(Head(resultCh))
    /\ resultCh' = Tail(resultCh)
    /\ UNCHANGED <<args, mainPc, spawned, sectionCh, sectionClosed, resultClosed, wgroup,
                   prodVars, workVars, crashed, traceVars, chAddr, wAddr, lastAddr,
                   cmp, verdict, accessed>>

\* lines 44, 57: the range loop ends on the closed, drained queue
MainReturn ==
    /\ ~crashed /\ mainPc = "range"
    /\ resultCh = << >> /\ resultClosed
    /\ mainPc' = "done"
    /\ UNCHANGED <<args, spawned, results, chanVars, prodVars, workVars, crashed, histVars>>

\* ---------------------------------------------------------------- sendSections
Min(a, b) == IF a < b THEN a ELSE b
Max(a, b) == IF a < b THEN b ELSE a

shiftX == Wrap(SectionSize - Bounds(mask)[1] + 1)
shiftZ == Wrap(SectionSize - Bounds(mask)[2] + 1)

\* lines 95-106: the corners are put in order, x := x0
ProducerStart ==
    /\ ~crashed /\ prodPc = "start"
    /\ lo' = <<Min(x0, x1), Min(z0, z1)>>
    /\ hi' = <<Max(x0, x1), Max(z0, z1)>>
    /\ px' = Min(x0, x1)
    /\ prodPc' = "xloop"
    /\ UNCHANGED <<args, mainVars, chanVars, pz, workVars, crashed, histVars>>

\* line 106: the test of the outer loop; line 107: z := z0
ProducerXTest ==
    /\ ~crashed /\ prodPc = "xloop"
    /\ IF px < hi[1]
         THEN pz' = lo[2] /\ prodPc' = "zloop"
         ELSE pz' = pz /\ prodPc' = "close"
    /\ UNCHANGED <<args, mainVars, chanVars, px, lo, hi, workVars, crashed, histVars>>

\* line 108: &Section{...} allocates at the next address no live Section has
FreeAddrs == Addrs \ ({ chAddr[i] : i \in 1 .. Len(chAddr) } \cup { wAddr[w] : w \in Workers })
AddrAfter(k) == ((lastAddr + k - 1) % Cardinality(Addrs)) + 1
NewAddr ==
    AddrAfter(CHOOSE k \in 1 .. Cardinality(Addrs) :
                /\ AddrAfter(k) \in FreeAddrs
                /\ \A j \in 1 .. k - 1 : AddrAfter(j) \notin FreeAddrs)

\* lines 107-108: a Section is published; z += shiftZ
ProducerSend ==
    /\ ~crashed /\ prodPc = "zloop"
    /\ pz < hi[2]
    /\ Len(sectionCh) < SectionChCap
    /\ sectionCh' = Append(sectionCh, NewSection(px, pz))
    /\ chAddr' = Append(chAddr, NewAddr)
    /\ lastAddr' = NewAddr
    /\ published' = published \cup {<<px, pz>>}
    /\ pz' = Wrap(pz + shiftZ)
    /\ UNCHANGED <<args, mainVars, sectionClosed, resultCh, resultClosed, wgroup,
                   prodPc, px, lo, hi, workVars, crashed, tested, retested, wAddr, auxVars, accVars>>

\* lines 106-107: the inner loop ends; x += shiftX
ProducerZEnd ==
    /\ ~crashed /\ prodPc = "zloop"
    /\ ~(pz < hi[2])
    /\ px' = Wrap(px + shiftX)
    /\ prodPc' = "xloop"
    /\ UNCHANGED <<args, mainVars, chanVars, pz, lo, hi, workVars, crashed, histVars>>

\* line 111: close(ctx.sectionCh)
ProducerClose ==
    /\ ~crashed /\ prodPc = "close"
    /\ sectionClosed' = TRUE
    /\ prodPc' = "wait"
    /\ UNCHANGED <<args, mainVars, sectionCh, resultCh, resultClosed, wgroup,
                   px, pz, lo, hi, workVars, crashed, histVars>>

\* line 113: ctx.wgroup.Wait() returns when the counter is zero
ProducerWait ==
    /\ ~crashed /\ prodPc = "wait"
    /\ wgroup = 0
    /\ prodPc' = "closeResult"
    /\ UNCHANGED <<args, mainVars, chanVars, px, pz, lo, hi, workVars, crashed, histVars>>

\* line 114: close(ctx.resultCh)
ProducerCloseResult ==
    /\ ~crashed /\ prodPc = "closeResult"
    /\ resultClosed' = TRUE
    /\ prodPc' = "done"
    /\ UNCHANGED <<args, mainVars, sectionCh, sectionClosed, resultCh, wgroup,
                   px, pz, lo, hi, workVars, crashed, histVars>>

\* ---------------------------------------------------------------------- search
WorkerRecv_Peek(w) ==
    /\ ~crashed /\ wPc[w] = "recv"
    /\ sectionCh # << >>
    /\ wSec' = [wSec EXCEPT ![w] = Head(sectionCh)]
    /\ wAddr' = [wAddr EXCEPT ![w] = Head(chAddr)]
    /\ wPc' = [wPc EXCEPT ![w] = "compute"]
    /\ UNCHANGED <<args, mainVars, chanVars, prodVars, wBatch, crashed, traceVars, chAddr,
                   lastAddr, auxVars, accVars>>

\* line 118: a Section is received
WorkerRecv(w) ==
    /\ ~crashed /\ wPc[w] = "recv"
    /\ sectionCh # << >>
    /\ wSec' = [wSec EXCEPT ![w] = Head(sectionCh)]
    /\ wAddr' = [wAddr EXCEPT ![w] = Head(chAddr)]
    /\ sectionCh' = Tail(sectionCh)
    /\ chAddr' = Tail(chAddr)
    /\ wPc' = [wPc EXCEPT ![w] = "compute"]
    /\ UNCHANGED <<args, mainVars, sectionClosed, resultCh, resultClosed, wgroup,
                   prodVars, wBatch, crashed, traceVars, lastAddr, auxVars, accVars>>

\* lines 118, 125: the range loop ends on the closed, drained queue; wgroup.Done()
WorkerDone(w) ==
    /\ ~crashed /\ wPc[w] = "recv"
    /\ sectionCh = << >> /\ sectionClosed
    /\ wgroup' = wgroup - 1
    /\ wPc' = [wPc EXCEPT ![w] = "done"]
    /\ UNCHANGED <<args, mainVars, sectionCh, sectionClosed, resultCh, resultClosed,
                   prodVars, wSec, wBatch, crashed, histVars>>

\* line 119: sec.Compute(ctx.world)
WorkerCompute(w) ==
    /\ ~crashed /\ wPc[w] = "compute"
    /\ wSec' = [wSec EXCEPT ![w] = Compute(wSec[w], world)]
    /\ accessed' = accessed \cup ComputeAccesses
    /\ crashed' = ~Asserted(ComputeAccesses)
    /\ wPc' = [wPc EXCEPT ![w] = "search"]
    /\ UNCHANGED <<args, mainVars, chanVars, prodVars, wBatch, traceVars, chAddr, wAddr,
                   lastAddr, auxVars>>

\* line 120: results := sec.Search(ctx.mask, ctx.threshold)
WorkerSearch(w) ==
    /\ ~crashed /\ wPc[w] = "search"
    /\ wBatch' = [wBatch EXCEPT ![w] = SectionSearch(wSec[w], mask, threshold)]
    /\ wSec' = [wSec EXCEPT ![w].state = "Searched"]
    /\ tested' = tested \cup Placements(wSec[w], mask)
    /\ retested' = retested \cup (tested \cap Placements(wSec[w], mask))
    /\ accessed' = accessed \cup SearchAccesses(mask)
    /\ crashed' = ~Asserted(SearchAccesses(mask))
    /\ wPc' = [wPc EXCEPT ![w] = "send"]
    /\ UNCHANGED <<args, mainVars, chanVars, prodVars, published, chAddr, wAddr,
                   lastAddr, auxVars>>

\* lines 121-123: a non-empty batch is sent
WorkerSend(w) ==
    /\ ~crashed /\ wPc[w] = "send"
    /\ Len(wBatch[w]) > 0
    /\ ~resultClosed
    /\ Len(resultCh) < ResultChCap
    /\ resultCh' = Append(resultCh, wBatch[w])
    /\ wPc' = [wPc EXCEPT ![w] = "recv"]
    /\ wAddr' = [wAddr EXCEPT ![w] = 0]
    /\ UNCHANGED <<args, mainVars, sectionCh, sectionClosed, resultClosed, wgroup,
                   prodVars, wSec, wBatch, crashed, traceVars, chAddr, lastAddr, auxVars, accVars>>

\* line 122 on a closed queue: the send panics and the process ends
WorkerSendPanic(w) ==
    /\ ~crashed /\ wPc[w] = "send"
    /\ Len(wBatch[w]) > 0
    /\ resultClosed
    /\ crashed' = TRUE
    /\ UNCHANGED <<args, mainVars, chanVars, prodVars, workVars, histVars>>

\* line 121: an empty batch is dropped
WorkerSkip(w) ==
    /\ ~crashed /\ wPc[w] = "send"
    /\ Len(wBatch[w]) = 0
    /\ wPc' = [wPc EXCEPT ![w] = "recv"]
    /\ wAddr' = [wAddr EXCEPT ![w] = 0]
    /\ UNCHANGED <<args, mainVars, chanVars, prodVars, wSec, wBatch, crashed, traceVars,
                   chAddr, lastAddr, auxVars, accVars>>

Main == MainPanic \/ MainGo \/ MainAdd \/ MainSpawn \/ MainSpawned \/ MainMerge \/ MainReturn

Producer ==
    \/ ProducerStart \/ ProducerXTest \/ ProducerSend \/ ProducerZEnd
    \/ ProducerClose \/ ProducerWait \/ ProducerCloseResult

Worker(w) ==
    \/ WorkerRecv(w) \/ WorkerDone(w) \/ WorkerCompute(w) \/ WorkerSearch(w)
    \/ WorkerSend(w) \/ WorkerSendPanic(w) \/ WorkerSkip(w)

Next == Main \/ Producer \/ \E w \in Workers : Worker(w)

Spec == Init /\ [][Next]_vars

\* The calls the termination claim is checked on: the rectangle at the top of the
\* integer range, a two-Section rectangle, and a rejected mask.
LiveCalls ==
    EdgeCalls
    \cup CallsOf({<<0, 0, SectionSize + 1, 1>>}, {FullMask(1, 1)}, {1}, {1}, 1 .. MaxWorkers)
    \cup CallsOf({<<0, 0, 1, 1>>}, {FullMask(SectionSize, 1)}, {1}, {0}, {1})

LiveInit ==
    /\ Init
    /\ \E c \in LiveCalls :
          /\ world = c.world
          /\ x0 = c.x0 /\ z0 = c.z0 /\ x1 = c.x1 /\ z1 = c.z1
          /\ threshold = c.threshold
          /\ mask = c.mask
          /\ workerCount = c.workerCount

\* ------------------------------------------------------- the merge on its own
\* The consumer's loop fed with batches of any content, in any order.
MaxMerged == 4
MaxBatch == 2

\* an x whose square is 2^IntBits (IntBits even) or 2^(IntBits-1) (IntBits odd)
WrapRoot == Pow2(IntBits \div 2)

Ranked ==
    { [Count |-> 1, X |-> 0, Z |-> 0], [Count |-> 1, X |-> WrapRoot, Z |-> 0],
      [Count |-> 2, X |-> -1, Z |-> 0], [Count |-> 2, X |-> 0, Z |-> 1] }

Batches == UNION { [1 .. n -> Ranked] : n \in 1 .. MaxBatch }

RECURSIVE Queued(_)
Queued(ch) == IF ch = << >> THEN 0 ELSE Len(Head(ch)) + Queued(Tail(ch))

\* lines 31-44: the consumer is at its range loop, nothing received yet
MergeInit ==
    /\ world = 0 /\ x0 = 0 /\ z0 = 0 /\ x1 = 1 /\ z1 = 1
    /\ threshold = 1 /\ mask = FullMask(1, 1) /\ workerCount = 1
    /\ mainPc = "range" /\ spawned = 1 /\ results = << >>
    /\ sectionCh = << >> /\ sectionClosed = FALSE
    /\ resultCh = << >> /\ resultClosed = FALSE
    /\ wgroup = 1
    /\ prodPc = "start" /\ px = 0 /\ pz = 0 /\ lo = <<0, 0>> /\ hi = <<0, 0>>
    /\ wPc = [w \in Workers |-> IF w = 1 THEN "recv" ELSE "idle"]
    /\ wSec = [w \in Workers |-> NewSection(0, 0)]
    /\ wBatch = [w \in Workers |-> << >>]
    /\ crashed = FALSE
    /\ published = {} /\ tested = {} /\ retested = {}
    /\ chAddr = << >> /\ wAddr = [w \in Workers |-> 0] /\ lastAddr = 0
    /\ received = EmptyBag
    /\ cmp = << >> /\ verdict = << >>
    /\ accessed = {}

\* line 122: some worker sends some non-empty batch
BatchArrives ==
    /\ mainPc = "range" /\ ~resultClosed
    /\ Len(resultCh) < ResultChCap
    /\ \E b \in Batches :
          /\ Len(results) + Queued(resultCh) + Len(b) <= MaxMerged
          /\ resultCh' = Append(resultCh, b)
    /\ UNCHANGED <<args, mainVars, sectionCh, sectionClosed, resultClosed, wgroup,
                   prodVars, workVars, crashed, histVars>>

MergeNext == BatchArrives \/ MainMerge

MergeSpec == MergeInit /\ [][MergeNext]_vars

\* ---------------------------------------------------- needSwap on its own
\* needSwap applied to three results a, b, c; the coordinates include the ends of
\* the integer range and WrapRoot, whose squares wrap.
CmpX == {MinInt, -1, 0, WrapRoot}
CmpZ == {0, 1, MaxInt}
CmpResults == { [Count |-> c, X |-> x, Z |-> z] : c \in {1, 2}, x \in CmpX, z \in CmpZ }

OrderInit ==
    /\ world = 0 /\ x0 = 0 /\ z0 = 0 /\ x1 = 1 /\ z1 = 1
    /\ threshold = 1 /\ mask = FullMask(1, 1) /\ workerCount = 1
    /\ mainPc = "range" /\ spawned = 1 /\ results = << >>
    /\ sectionCh = << >> /\ sectionClosed = FALSE
    /\ resultCh = << >> /\ resultClosed = FALSE
    /\ wgroup = 1
    /\ prodPc = "start" /\ px = 0 /\ pz = 0 /\ lo = <<0, 0>> /\ hi = <<0, 0>>
    /\ wPc = [w \in Workers |-> IF w = 1 THEN "recv" ELSE "idle"]
    /\ wSec = [w \in Workers |-> NewSection(0, 0)]
    /\ wBatch = [w \in Workers |-> << >>]
    /\ crashed = FALSE
    /\ published = {} /\ tested = {} /\ retested = {}
    /\ chAddr = << >> /\ wAddr = [w \in Workers |-> 0] /\ lastAddr = 0
    /\ received = EmptyBag
    /\ cmp \in CmpResults \X CmpResults \X CmpResults
    /\ verdict = << >>
    /\ accessed = {}

\* line 49: needSwap is called: on (a, a), (a, b), (b, a), (b, c) and (a, c)
Compare ==
    /\ verdict = << >>
    /\ verdict' = << needSwap(cmp[1], cmp[1]), needSwap(cmp[1], cmp[2]),
                     needSwap(cmp[2], cmp[1]), needSwap(cmp[2], cmp[3]),
                     needSwap(cmp[1], cmp[3]) >>
    /\ UNCHANGED <<args, mainVars, chanVars, prodVars, workVars, crashed, traceVars,
                   chAddr, wAddr, lastAddr, received, cmp, accessed>>

OrderSpec == OrderInit /\ [][Compare]_vars

\* the scheduler runs every goroutine that can take a step
FairSpec ==
    /\ LiveInit /\ [][Next]_vars
    /\ WF_vars(Main) /\ WF_vars(Producer)
    /\ \A w \in Workers : WF_vars(Worker(w))

\* ================================================================== properties
Returned == mainPc = "done"

\* every published Section has been searched and no worker is running
AllSearched ==
    /\ sectionClosed /\ sectionCh = << >>
    /\ \A w \in 1 .. workerCount : wPc[w] = "done"

\* the grid cells of the Section with origin o
CellsOf(o) ==
    { <<Wrap(o[1] + i), Wrap(o[2] + j)>> : i \in 0 .. SectionSize - 1, j \in 0 .. SectionSize - 1 }

CoveredCells == UNION { CellsOf(o) : o \in published }

\* the mask, its top-left cell at p, lies within the covered cells
Fits(p) ==
    \A i \in 0 .. mask.w - 1, j \in 0 .. mask.h - 1 : <<p[1] + i, p[2] + j>> \in CoveredCells

\* the number of mask cells over true grid cells, the mask's top-left cell at <<gx, gz>>
Overlap(gx, gz) ==
    Cardinality({ c \in mask.cells :
                    /\ c[1] \in 0 .. mask.w - 1 /\ c[2] \in 0 .. mask.h - 1
                    /\ CalcChunk(world, Wrap(gx + c[1]), Wrap(gz + c[2])) })

ExactD2(r) == r.X * r.X + r.Z * r.Z

AdjacentPairs == { <<results[i], results[i + 1]>> : i \in 1 .. Len(results) - 1 }

\* --------------------------------------------------------------------------
\* the placements whose top-left cell lies in the search rectangle
InRectangle(p) ==
    /\ Min(x0, x1) <= p[1] /\ p[1] < Max(x0, x1)
    /\ Min(z0, z1) <= p[2] /\ p[2] < Max(z0, z1)

\* C1, for the placements inside the search rectangle: once every published Section
\* has been searched, every placement at which the mask fits within the covered
\* cells has been tested by exactly one Section.
C1_Coverage ==
    AllSearched =>
        \A p \in CoveredCells :
            (InRectangle(p) /\ Fits(p)) => (p \in tested /\ p \notin retested)

\* --------------------------------------------------------------------------
\* The tiling in row-major order and the merge of its batches one after another:
\* what a run with no concurrency returns.
normX0 == Min(x0, x1)
normX1 == Max(x0, x1)
normZ0 == Min(z0, z1)
normZ1 == Max(z0, z1)

RECURSIVE OriginsFrom(_, _)
OriginsFrom(x, z) ==
    IF ~(x < normX1) THEN << >>
    ELSE IF ~(z < normZ1) THEN OriginsFrom(Wrap(x + shiftX), normZ0)
    ELSE << <<x, z>> >> \o OriginsFrom(x, Wrap(z + shiftZ))

RECURSIVE MergeAll(_, _)
MergeAll(acc, origins) ==
    IF origins = << >> THEN acc
    ELSE MergeAll(Merge(acc, SectionSearch(Compute(NewSection(Head(origins)[1],
                                                              Head(origins)[2]), world),
                                           mask, threshold)),
                  Tail(origins))

SequentialResults == MergeAll(<< >>, OriginsFrom(normX0, normZ0))

\* C2: the list Search returns is the same in every interleaving and for every
\* worker count: it is the list the sequential run returns.
C2_Deterministic == Returned => results = SequentialResults

\* --------------------------------------------------------------------------
\* C3: the returned list is non-increasing in Count.
C3_CountNonIncreasing ==
    Returned => \A pr \in AdjacentPairs : pr[1].Count >= pr[2].Count

C3_Witness ==
    /\ Returned /\ Len(results) >= 2
    /\ results[1].Count > results[Len(results)].Count

\* --------------------------------------------------------------------------
\* C4 as stated: adjacent returned entries of equal Count and equal squared distance
\* are in descending x, then descending z.
C4_TieDescending ==
    Returned =>
        \A pr \in AdjacentPairs :
            (pr[1].Count = pr[2].Count /\ ExactD2(pr[1]) = ExactD2(pr[2])) =>
                \/ pr[1].X > pr[2].X
                \/ pr[1].X = pr[2].X /\ pr[1].Z >= pr[2].Z

\* C4 amended: adjacent returned entries of equal Count and equal squared distance
\* are in ascending x, then ascending z.
C4_TieAscending ==
    Returned =>
        \A pr \in AdjacentPairs :
            (pr[1].Count = pr[2].Count /\ ExactD2(pr[1]) = ExactD2(pr[2])) =>
                \/ pr[1].X < pr[2].X
                \/ pr[1].X = pr[2].X /\ pr[1].Z <= pr[2].Z

\* a returned list with a tie decided by x and a tie decided by z
C4_Witness ==
    /\ Returned
    /\ \E pr \in AdjacentPairs :
          pr[1].Count = pr[2].Count /\ ExactD2(pr[1]) = ExactD2(pr[2]) /\ pr[1].X # pr[2].X
    /\ \E pr \in AdjacentPairs :
          /\ pr[1].Count = pr[2].Count /\ ExactD2(pr[1]) = ExactD2(pr[2])
          /\ pr[1].X = pr[2].X /\ pr[1].Z # pr[2].Z

\* --------------------------------------------------------------------------
\* C5: among returned entries of equal Count the exact squared distance X*X + Z*Z
\* is non-decreasing.
C5_DistanceNonDecreasing ==
    Returned =>
        \A pr \in AdjacentPairs :
            pr[1].Count = pr[2].Count => ExactD2(pr[1]) <= ExactD2(pr[2])

\* --------------------------------------------------------------------------
\* C6: under fair scheduling every call of Search comes to an end: it returns or
\* the bounds check panics, unless a worker's panic has ended the process.
C6_Terminates == <>(Returned \/ mainPc = "panicked" \/ crashed)

\* --------------------------------------------------------------------------
\* C7: with a mask as wide or as high as a Section, Search panics at the check:
\* no producer or worker is started, no Section is created, published or searched.
C7_BoundsRejection ==
    (mask.w >= SectionSize \/ mask.h >= SectionSize) =>
        /\ mainPc \in {"check", "panicked"}
        /\ prodPc = "idle"
        /\ \A w \in Workers : wPc[w] = "idle"
        /\ sectionCh = << >> /\ resultCh = << >> /\ wgroup = 0
        /\ published = {} /\ tested = {} /\ results = << >>

C7_Witness ==
    /\ mainPc = "panicked"
    /\ mask.w >= SectionSize \/ mask.h >= SectionSize

\* --------------------------------------------------------------------------
\* the offsets Section.Search tests, and the coordinate it reports for one
Offsets == (0 .. SearchX1(mask) - 1) \X (0 .. SearchZ1(mask) - 1)

CentreOf(sec, o) ==
    <<Wrap(sec.X + o[1] + (mask.w \div 2)), Wrap(sec.Z + o[2] + (mask.h \div 2))>>

Coords(batch) == { <<batch[k].X, batch[k].Z>> : k \in 1 .. Len(batch) }

\* C8: a batch holds a tested placement exactly if its overlap count is at least
\* the threshold.
C8_ThresholdBoundary ==
    \A w \in Workers :
        wPc[w] = "send" =>
            \A o \in Offsets :
                (CentreOf(wSec[w], o) \in Coords(wBatch[w]))
                    <=> (Overlap(wSec[w].X + o[1], wSec[w].Z + o[2]) >= threshold)

\* a batch with a placement of exactly threshold in it and one of threshold - 1 left out
C8_Witness ==
    \E w \in Workers :
        /\ wPc[w] = "send"
        /\ \E o \in Offsets :
              /\ Overlap(wSec[w].X + o[1], wSec[w].Z + o[2]) = threshold
              /\ CentreOf(wSec[w], o) \in Coords(wBatch[w])
        /\ \E o \in Offsets :
              /\ Overlap(wSec[w].X + o[1], wSec[w].Z + o[2]) = threshold - 1
              /\ CentreOf(wSec[w], o) \notin Coords(wBatch[w])

\* --------------------------------------------------------------------------
\* C9: every entry of a batch is, for one tested offset, the coordinate of the
\* mask's centre (in machine integers) with the exact overlap count.
C9_ResultShape ==
    \A w \in Workers :
        wPc[w] = "send" =>
            \A k \in 1 .. Len(wBatch[w]) :
                \E o \in Offsets :
                    wBatch[w][k] =
                        [Count |-> Overlap(wSec[w].X + o[1], wSec[w].Z + o[2]),
                         X |-> CentreOf(wSec[w], o)[1],
                         Z |-> CentreOf(wSec[w], o)[2]]

\* a batch of a mask whose centre is not its corner, with a partial overlap in it
C9_Witness ==
    \E w \in Workers :
        /\ wPc[w] = "send"
        /\ mask.w \div 2 > 0
        /\ Cardinality(mask.cells) < mask.w * mask.h
        /\ \E k \in 1 .. Len(wBatch[w]) :
              /\ wBatch[w][k].Count < Cardinality(mask.cells)
              /\ wBatch[w][k].X # wSec[w].X

\* --------------------------------------------------------------------------
\* C10: with a set 1x1 mask, threshold 1 and the rectangle (0,0)-(2S,2S), Search
\* returns the cells of the rectangle that CalcChunk classifies true, with Count 1.
C10_Scenario ==
    /\ x0 = 0 /\ z0 = 0 /\ x1 = 2 * SectionSize /\ z1 = 2 * SectionSize
    /\ mask = FullMask(1, 1) /\ threshold = 1

C10_SquareScenario ==
    (C10_Scenario /\ Returned) =>
        /\ Coords(results) =
              { c \in (0 .. 2 * SectionSize - 1) \X (0 .. 2 * SectionSize - 1) :
                  CalcChunk(world, c[1], c[2]) }
        /\ \A k \in 1 .. Len(results) : results[k].Count = 1

\* --------------------------------------------------------------------------
\* the list the sequential run returns for the corners <<a0, c0>> and <<a1, c1>>
RECURSIVE TileFrom(_, _, _, _, _)
TileFrom(x, z, zlo, xhi, zhi) ==
    IF ~(x < xhi) THEN << >>
    ELSE IF ~(z < zhi) THEN TileFrom(Wrap(x + shiftX), zlo, zlo, xhi, zhi)
    ELSE << <<x, z>> >> \o TileFrom(x, Wrap(z + shiftZ), zlo, xhi, zhi)

SequentialOf(a0, c0, a1, c1) ==
    MergeAll(<< >>, TileFrom(Min(a0, a1), Min(c0, c1), Min(c0, c1), Max(a0, a1), Max(c0, c1)))

\* C11: the list Search returns is the list returned for the call with x0 and x1
\* exchanged, with z0 and z1 exchanged, and with both exchanged.
C11_CornersExchanged ==
    Returned =>
        /\ results = SequentialOf(x1, z0, x0, z1)
        /\ results = SequentialOf(x0, z1, x1, z0)
        /\ results = SequentialOf(x1, z1, x0, z0)

\* C12: resultCh is closed only after sectionCh is closed and each of the
\* workerCount workers has called wgroup.Done; no worker sends on the closed
\* resultCh; the consumer's loop does not end before the close.
C12_CloseAfterWorkers ==
    /\ resultClosed =>
          /\ sectionClosed
          /\ \A w \in 1 .. workerCount : wPc[w] = "done"
    /\ ~crashed
    /\ Returned => resultClosed

\* --------------------------------------------------------------------------
\* the workers that hold the Section at address a, and its places in sectionCh
HoldersOf(a) == { w \in Workers : wAddr[w] = a }
QueuedAt(a) == { i \in 1 .. Len(chAddr) : chAddr[i] = a }

\* a live Section is in exactly one place, in the state its holder's position implies
Owned ==
    /\ Len(chAddr) = Len(sectionCh)
    /\ \A a \in Addrs : Cardinality(HoldersOf(a)) + Cardinality(QueuedAt(a)) <= 1
    /\ \A i \in 1 .. Len(sectionCh) : sectionCh[i].state = "Empty"
    /\ \A w \in Workers :
          /\ wPc[w] \in {"idle", "recv", "done"} => wAddr[w] = 0
          /\ wPc[w] = "compute" => wAddr[w] \in Addrs /\ wSec[w].state = "Empty"
          /\ wPc[w] = "search" => wAddr[w] \in Addrs /\ wSec[w].state = "Computed"
          /\ wPc[w] = "send" => wAddr[w] \in Addrs /\ wSec[w].state = "Searched"

\* a step of worker w on its Section: receive an Empty one from the head of the
\* queue, drop a Searched one, or move it one state forward
Lifecycle(w) ==
    IF wAddr'[w] # wAddr[w]
      THEN \/ wAddr[w] = 0 /\ wAddr'[w] = Head(chAddr) /\ wSec'[w].state = "Empty"
           \/ wAddr'[w] = 0 /\ wSec[w].state = "Searched"
      ELSE wSec'[w] # wSec[w] =>
             /\ wAddr[w] # 0
             /\ <<wSec[w].state, wSec'[w].state>> \in
                   {<<"Empty", "Computed">>, <<"Computed", "Searched">>}
             /\ wSec'[w].X = wSec[w].X /\ wSec'[w].Z = wSec[w].Z

BatchOf(o) == SectionSearch(Compute(NewSection(o[1], o[2]), world), mask, threshold)

RECURSIVE AllBatches(_)
AllBatches(origins) ==
    IF origins = << >> THEN << >>
    ELSE BatchOf(Head(origins)) \o AllBatches(Tail(origins))

Occurrences(s, r) == Cardinality({ i \in DOMAIN s : s[i] = r })

IsPermutation(s, t) ==
    /\ Len(s) = Len(t)
    /\ \A i \in DOMAIN s : Occurrences(s, s[i]) = Occurrences(t, s[i])

\* C14: when Search returns, the returned list is a permutation of the
\* concatenation of the batches of all published Sections: none lost, none doubled.
C14_NothingLost ==
    Returned => IsPermutation(results, AllBatches(OriginsFrom(normX0, normZ0)))

\* --------------------------------------------------------------------------
Sorted(rs) == \A i \in 1 .. Len(rs) - 1 : ~needSwap(rs[i], rs[i + 1])

\* C15: after each merge of a batch the accumulated list is ordered (needSwap is
\* false for every adjacent pair) and is a permutation of all entries received so
\* far, for batches of any content arriving in any order.
C15_MergeInvariant == Sorted(results) /\ BagOf(results) = received

\* MaxMerged entries have been merged, of different Count, one of them the entry
\* at x = WrapRoot
C15_Witness ==
    /\ Len(results) = MaxMerged /\ resultCh = << >>
    /\ results[1].Count > results[MaxMerged].Count
    /\ \E i \in DOMAIN results : results[i].X = WrapRoot

\* --------------------------------------------------------------------------
\* C16: needSwap is a strict total order on results: needSwap(a, a) is false, of
\* needSwap(a, b) and needSwap(b, a) exactly one is true for distinct a and b, and
\* needSwap(a, b) and needSwap(b, c) imply needSwap(a, c); also for coordinates
\* whose squared distance wraps.
C16_StrictTotalOrder ==
    verdict # << >> =>
        /\ ~verdict[1]
        /\ cmp[1] # cmp[2] => (verdict[2] # verdict[3])
        /\ cmp[1] = cmp[2] => ~verdict[2] /\ ~verdict[3]
        /\ verdict[2] /\ verdict[4] => verdict[5]

\* three distinct results of equal Count, among them x = MinInt and x = WrapRoot
\* whose squares wrap, have been compared and form a chain
C16_Witness ==
    /\ verdict # << >>
    /\ cmp[1] # cmp[2] /\ cmp[2] # cmp[3] /\ cmp[1] # cmp[3]
    /\ cmp[1].Count = cmp[2].Count /\ cmp[2].Count = cmp[3].Count
    /\ \E i \in 1 .. 3 : cmp[i].X = MinInt
    /\ \E i \in 1 .. 3 : cmp[i].X = WrapRoot
    /\ verdict[2] /\ verdict[4] /\ verdict[5]

\* --------------------------------------------------------------------------
\* C17: every returned result lies inside the normalised rectangle:
\* min(x0, x1) <= X <= max(x0, x1) and min(z0, z1) <= Z <= max(z0, z1).
C17_InsideRectangle ==
    Returned =>
        \A i \in DOMAIN results :
            /\ normX0 <= results[i].X /\ results[i].X <= normX1
            /\ normZ0 <= results[i].Z /\ results[i].Z <= normZ1

\* --------------------------------------------------------------------------
\* C18: every buffer access of Compute and of Search/CheckMask uses indices
\* 0 <= x < SectionSize and 0 <= z < SectionSize, so no assertion of secIdx
\* fails and no access falls outside the buffer.
C18_AccessInRange ==
    /\ \A p \in accessed :
          /\ 0 <= p[1] /\ p[1] < SectionSize
          /\ 0 <= p[2] /\ p[2] < SectionSize
          /\ secIdx(p[1], p[2]) \in DOMAIN EmptySlime
    /\ Asserted(accessed)

\* a Section has been computed and searched with the 2x2 mask: the last cell of
\* the buffer has been accessed
C18_Witness ==
    /\ mask = MaskL
    /\ \E w \in Workers : wPc[w] = "send"
    /\ <<SectionSize - 1, SectionSize - 1>> \in accessed

\* --------------------------------------------------------------------------
\* C19: no coordinate is reported twice: any two entries of the returned list
\* differ in X or in Z.
C19_NoDuplicate ==
    Returned =>
        \A i, j \in DOMAIN results :
            i # j => <<results[i].X, results[i].Z>> # <<results[j].X, results[j].Z>>

====
